---- MODULE Spec2Model ----
(***************************************************************************)
(* ersatz-jjy / ersatz-wwvb: audio synthesis of the JJY and WWVB longwave  *)
(* time codes.  The module models the bit codec, the second classifier,    *)
(* the WWVB phase-modulation engine and the per-frame stream callback of   *)
(* src/ersatz-jjy.c and src/ersatz-wwvb.c.                                 *)
(*                                                                         *)
(* A struct tm is a record with the fields the code reads: tm_sec, tm_min, *)
(* tm_hour, tm_yday, tm_year (years since 1900) and tm_wday.  The WWVB     *)
(* functions receive a time_t and start with gmtime (t); here they receive *)
(* the struct tm that call returns (parameter utc).                        *)
(***************************************************************************)
EXTENDS Integers, Sequences, FiniteSets, TLC

(* ------------------------- macro constants ---------------------------- *)
MAX_NANOSEC == 1000000000

SAMPLE_RATE == 48000

JJY_FRAMES_PER_BUFFER == 64

WWVB_FRAMES_PER_BUFFER == 512

WT_CAP == 18

NINE_HOURS == 32400

PS_INDEX == 6

(* ------------------------ calculated constants ------------------------ *)
JJY_B0_HIGH_SAMPLES == (SAMPLE_RATE * 4) \div 5

JJY_B1_HIGH_SAMPLES == SAMPLE_RATE \div 2

JJY_M_HIGH_SAMPLES == SAMPLE_RATE \div 5

WWVB_B0_LOW_SAMPLES == SAMPLE_RATE \div 5

WWVB_B1_LOW_SAMPLES == SAMPLE_RATE \div 2

(* Mutant: the marker as short as a binary 0.                              *)
WWVB_M_LOW_SAMPLES_short == SAMPLE_RATE \div 5

WWVB_M_LOW_SAMPLES == (SAMPLE_RATE * 4) \div 5

(* The 64-bit words of the packed bit arrays, each written as its four    *)
(* 16-bit groups from the most significant to the least significant.      *)
HALF_HOUR_SEQ_BITS ==
  << << \H34bd, \H771e, \H648a, \Hb67f >>,
     << \Hb503, \H7c16, \H10e8, \Hc4e5 >> >>

FIXED_TIMING_WORD ==
  << << \H42a5, \Hcb43, \H1d9a, \H6b8b >>,
     << \H0000, \H0092, \H07fb, \H6b47 >> >>

(* The streams the two programs open: ersatz-jjy without -f, ersatz-jjy   *)
(* with -f, ersatz-wwvb.                                                   *)
Protos == {"JJY60", "JJY40", "WWVB"}

IsJJY(p) == p \in {"JJY60", "JJY40"}

(* WT_SIZE: set by jjy_populate_wavetables from the fukushima flag; a     *)
(* macro in ersatz-wwvb.c.                                                 *)
WT_SIZE(p) == IF p = "JJY40" THEN 18 ELSE 12

(* ------------------------------ time ----------------------------------- *)
(* gmtime for a time_t counting seconds since 1970-01-01T00:00:00Z without *)
(* leap seconds, for the years 1901..2099 (every fourth year is a leap    *)
(* year there).  \div and % round towards minus infinity, as the          *)
(* conversion does for times before 1970.                                  *)
gmtime(t) ==
  LET days == t \div 86400
      rem  == t % 86400
      d    == days + 25202
      c    == d \div 1461
      r    == d % 1461
      yic  == IF r \div 365 > 3 THEN 3 ELSE r \div 365
  IN  [ tm_sec  |-> rem % 60,
        tm_min  |-> (rem \div 60) % 60,
        tm_hour |-> rem \div 3600,
        tm_yday |-> r - 365 * yic,
        tm_year |-> 1 + 4 * c + yic,
        tm_wday |-> (days + 4) % 7 ]

(* get_tm: gmtime of the time moved nine hours east under -j, localtime   *)
(* otherwise.  localtime is gmtime of the time moved by the zone's offset *)
(* tz (seconds east of UTC).                                               *)
get_tm(t, jst, tz) ==
  IF jst THEN gmtime(t + NINE_HOURS) ELSE gmtime(t + tz)

(* ------------------------- JJY time code bits -------------------------- *)
jjy_b01(t) == (t.tm_min >= 40)
jjy_b02(t) == ((t.tm_min % 40) >= 20)
jjy_b03(t) == ((t.tm_min % 20) >= 10)
jjy_b05(t) == ((t.tm_min % 10) >= 8)
(* Mutant: the units digit is not taken first.                             *)
jjy_b06_no_digit(t) == ((t.tm_min % 8) >= 4)
jjy_b06(t) == (((t.tm_min % 10) % 8) >= 4)
jjy_b07(t) == (((t.tm_min % 10) % 4) >= 2)
jjy_b08(t) == ((t.tm_min % 2) > 0)
jjy_b12(t) == (t.tm_hour >= 20)
jjy_b13(t) == ((t.tm_hour % 20) >= 10)
jjy_b15(t) == ((t.tm_hour % 10) >= 8)
jjy_b16(t) == (((t.tm_hour % 10) % 8) >= 4)
jjy_b17(t) == (((t.tm_hour % 10) % 4) >= 2)
jjy_b18(t) == ((t.tm_hour % 2) > 0)
jjy_b22(t) == ((t.tm_yday + 1) >= 200)
jjy_b23(t) == (((t.tm_yday + 1) % 200) >= 100)
jjy_b25(t) == (((t.tm_yday + 1) % 100) >= 80)
jjy_b26(t) == ((((t.tm_yday + 1) % 100) % 80) >= 40)
jjy_b27(t) == ((((t.tm_yday + 1) % 100) % 40) >= 20)
jjy_b28(t) == (((t.tm_yday + 1) % 20) >= 10)
jjy_b30(t) == (((t.tm_yday + 1) % 10) >= 8)
jjy_b31(t) == ((((t.tm_yday + 1) % 10) % 8) >= 4)
jjy_b32(t) == ((((t.tm_yday + 1) % 10) % 4) >= 2)
jjy_b33(t) == (((t.tm_yday + 1) % 2) > 0)
jjy_b41(t) == ((t.tm_year % 100) >= 80)
jjy_b42(t) == (((t.tm_year % 100) % 80) >= 40)
jjy_b43(t) == (((t.tm_year % 100) % 40) >= 20)
jjy_b44(t) == ((t.tm_year % 20) >= 10)
jjy_b45(t) == ((t.tm_year % 10) >= 8)
jjy_b46(t) == (((t.tm_year % 10) % 8) >= 4)
jjy_b47(t) == (((t.tm_year % 10) % 4) >= 2)
jjy_b48(t) == ((t.tm_year % 2) > 0)
jjy_b50(t) == (t.tm_wday >= 4)
jjy_b51(t) == ((t.tm_wday % 4) >= 2)
jjy_b52(t) == ((t.tm_wday % 2) > 0)
jjy_b53(t) == FALSE
jjy_b54(t) == FALSE

(* Even parity over bits 12-18 (jjy_b36) and over bits 1-8 (jjy_b37).     *)
jjy_b36(t) ==
  LET p0 == FALSE
      p1 == (p0 # jjy_b12(t))
      p2 == (p1 # jjy_b13(t))
      p3 == (p2 # jjy_b15(t))
      p4 == (p3 # jjy_b16(t))
      p5 == (p4 # jjy_b17(t))
      p6 == (p5 # jjy_b18(t))
  IN  p6

(* Mutant: the parity leaves out bit 08.                                   *)
jjy_b37_short(t) ==
  (((((jjy_b01(t) # jjy_b02(t)) # jjy_b03(t)) # jjy_b05(t)) # jjy_b06(t))
     # jjy_b07(t))

jjy_b37(t) ==
  LET p0 == FALSE
      p1 == (p0 # jjy_b01(t))
      p2 == (p1 # jjy_b02(t))
      p3 == (p2 # jjy_b03(t))
      p4 == (p3 # jjy_b05(t))
      p5 == (p4 # jjy_b06(t))
      p6 == (p5 # jjy_b07(t))
      p7 == (p6 # jjy_b08(t))
  IN  p7

(* Mutant: the entries of seconds 5 and 6 are exchanged.                   *)
jjy_bit_func_swapped ==
  <<
      0,  1,  2,  3,  0,  6,  5,  7,  8,  0,
      0,  0, 12, 13,  0, 15, 16, 17, 18,  0,
      0,  0, 22, 23,  0, 25, 26, 27, 28,  0,
     30, 31, 32, 33,  0,  0, 36, 37,  0,  0,
      0, 41, 42, 43, 44, 45, 46, 47, 48,  0,
     50, 51, 52, 53, 54,  0,  0,  0,  0,  0,
      0 >>

(* The lookup table jjy_bit_func, indexed by tm_sec (entry tm_sec + 1     *)
(* here): the number NN of the function jjy_bNN it holds, 0 for NULL.     *)
jjy_bit_func ==
  <<
      0,  1,  2,  3,  0,  5,  6,  7,  8,  0,
      0,  0, 12, 13,  0, 15, 16, 17, 18,  0,
      0,  0, 22, 23,  0, 25, 26, 27, 28,  0,
     30, 31, 32, 33,  0,  0, 36, 37,  0,  0,
      0, 41, 42, 43, 44, 45, 46, 47, 48,  0,
     50, 51, 52, 53, 54,  0,  0,  0,  0,  0,
      0 >>

(* The call jjy_bit_func[n] (t) of the function numbered n.               *)
jjy_call(n, t) ==
  CASE n = 1 -> jjy_b01(t)
    [] n = 2 -> jjy_b02(t)
    [] n = 3 -> jjy_b03(t)
    [] n = 5 -> jjy_b05(t)
    [] n = 6 -> jjy_b06(t)
    [] n = 7 -> jjy_b07(t)
    [] n = 8 -> jjy_b08(t)
    [] n = 12 -> jjy_b12(t)
    [] n = 13 -> jjy_b13(t)
    [] n = 15 -> jjy_b15(t)
    [] n = 16 -> jjy_b16(t)
    [] n = 17 -> jjy_b17(t)
    [] n = 18 -> jjy_b18(t)
    [] n = 22 -> jjy_b22(t)
    [] n = 23 -> jjy_b23(t)
    [] n = 25 -> jjy_b25(t)
    [] n = 26 -> jjy_b26(t)
    [] n = 27 -> jjy_b27(t)
    [] n = 28 -> jjy_b28(t)
    [] n = 30 -> jjy_b30(t)
    [] n = 31 -> jjy_b31(t)
    [] n = 32 -> jjy_b32(t)
    [] n = 33 -> jjy_b33(t)
    [] n = 36 -> jjy_b36(t)
    [] n = 37 -> jjy_b37(t)
    [] n = 41 -> jjy_b41(t)
    [] n = 42 -> jjy_b42(t)
    [] n = 43 -> jjy_b43(t)
    [] n = 44 -> jjy_b44(t)
    [] n = 45 -> jjy_b45(t)
    [] n = 46 -> jjy_b46(t)
    [] n = 47 -> jjy_b47(t)
    [] n = 48 -> jjy_b48(t)
    [] n = 50 -> jjy_b50(t)
    [] n = 51 -> jjy_b51(t)
    [] n = 52 -> jjy_b52(t)
    [] n = 53 -> jjy_b53(t)
    [] n = 54 -> jjy_b54(t)
    [] OTHER -> FALSE

(* sec_high_samples: the switch on tm_sec.  A call through a NULL entry   *)
(* of the table returns no sample count; it is shown as -1.               *)
sec_high_samples(t) ==
  CASE t.tm_sec \in {0, 9, 19, 29, 39, 49, 59, 60} -> JJY_M_HIGH_SAMPLES
    [] t.tm_sec \in {4, 10, 11, 14, 20, 21, 24, 34, 35, 38, 40, 55, 56, 57, 58}
         -> JJY_B0_HIGH_SAMPLES
    [] t.tm_sec \in {1, 2, 3, 5, 6, 7, 8, 12, 13, 15, 16, 17, 18, 22, 23,
                     25, 26, 27, 28, 30, 31, 32, 33, 36, 37, 41, 42, 43,
                     44, 45, 46, 47, 48, 50, 51, 52, 53, 54}
         -> IF jjy_bit_func[t.tm_sec + 1] = 0 THEN -1
            ELSE IF jjy_call(jjy_bit_func[t.tm_sec + 1], t)
                 THEN JJY_B1_HIGH_SAMPLES
                 ELSE JJY_B0_HIGH_SAMPLES
    [] OTHER -> JJY_B0_HIGH_SAMPLES

(* ------------------------ WWVB AM time code bits ----------------------- *)
wwvb_b01(utc) == (utc.tm_min >= 40)
wwvb_b02(utc) == ((utc.tm_min % 40) >= 20)
wwvb_b03(utc) == ((utc.tm_min % 20) >= 10)
wwvb_b05(utc) == ((utc.tm_min % 10) >= 8)
wwvb_b06(utc) == (((utc.tm_min % 10) % 8) >= 4)
wwvb_b07(utc) == (((utc.tm_min % 10) % 4) >= 2)
wwvb_b08(utc) == ((utc.tm_min % 2) > 0)
wwvb_b12(utc) == (utc.tm_hour >= 20)
wwvb_b13(utc) == ((utc.tm_hour % 20) >= 10)
wwvb_b15(utc) == ((utc.tm_hour % 10) >= 8)
wwvb_b16(utc) == (((utc.tm_hour % 10) % 8) >= 4)
wwvb_b17(utc) == (((utc.tm_hour % 10) % 4) >= 2)
wwvb_b18(utc) == ((utc.tm_hour % 2) > 0)
wwvb_b22(utc) == ((utc.tm_yday + 1) >= 200)
wwvb_b23(utc) == (((utc.tm_yday + 1) % 200) >= 100)
wwvb_b25(utc) == (((utc.tm_yday + 1) % 100) >= 80)
wwvb_b26(utc) == ((((utc.tm_yday + 1) % 100) % 80) >= 40)
wwvb_b27(utc) == ((((utc.tm_yday + 1) % 100) % 40) >= 20)
wwvb_b28(utc) == (((utc.tm_yday + 1) % 20) >= 10)
wwvb_b30(utc) == (((utc.tm_yday + 1) % 10) >= 8)
wwvb_b31(utc) == ((((utc.tm_yday + 1) % 10) % 8) >= 4)
wwvb_b32(utc) == ((((utc.tm_yday + 1) % 10) % 4) >= 2)
wwvb_b33(utc) == (((utc.tm_yday + 1) % 2) > 0)
wwvb_b36(utc) == TRUE
wwvb_b37(utc) == FALSE
(* Mutant: the DUT1 sign bit 38 is clear.                                 *)
wwvb_b38_clear(utc) == FALSE

wwvb_b38(utc) == TRUE
wwvb_b40(utc) == FALSE
wwvb_b41(utc) == FALSE
wwvb_b42(utc) == FALSE
wwvb_b43(utc) == FALSE
wwvb_b45(utc) == ((utc.tm_year % 100) >= 80)
wwvb_b46(utc) == (((utc.tm_year % 100) % 80) >= 40)
wwvb_b47(utc) == (((utc.tm_year % 100) % 40) >= 20)
wwvb_b48(utc) == ((utc.tm_year % 20) >= 10)
wwvb_b50(utc) == ((utc.tm_year % 10) >= 8)
wwvb_b51(utc) == (((utc.tm_year % 10) % 8) >= 4)
wwvb_b52(utc) == (((utc.tm_year % 10) % 4) >= 2)
wwvb_b53(utc) == ((utc.tm_year % 2) > 0)
wwvb_b56(utc) == FALSE

(* Mutant: every fourth year is a leap year.                               *)
wwvb_b55_julian(utc) == ((utc.tm_year + 1900) % 4 = 0)

wwvb_b55(utc) ==
  LET year == utc.tm_year + 1900
  IN  (year % 4 = 0) /\ ((year % 100 = 0) = (year % 400 = 0))

(* wwvb_b57, wwvb_b58: tm_isdst of localtime at 23:59:59 and at 00:00:00  *)
(* of the current UTC day.  The zone's rules belong to the C library and  *)
(* the TZ database; the flag localtime reports is the parameter.          *)
wwvb_b57(dst_eod) == dst_eod

wwvb_b58(dst_bod) == dst_bod

(* ------------------------ WWVB phase modulation ------------------------ *)
RECURSIVE minutes_before(_, _)
(* The loop of minute_of_century: the minutes of the years i..year-1.     *)
minutes_before(i, year) ==
  IF i < year
  THEN (IF (i % 4 = 0) /\ ((i % 100 = 0) = (i % 400 = 0))
        THEN 366 * 1440
        ELSE 365 * 1440) + minutes_before(i + 1, year)
  ELSE 0

(* Mutant: every year has 365 days.                                        *)
minute_of_century_no_leap(t) ==
  ((t.tm_year % 100) * 365 * 1440)
    + (t.tm_yday * 1440) + (t.tm_hour * 60) + t.tm_min

minute_of_century(t) ==
  LET year       == t.tm_year + 1900
      first_year == year - (year % 100)
  IN  minutes_before(first_year, year)
        + (t.tm_yday * 1440) + (t.tm_hour * 60) + t.tm_min

(* 2^k, and x & (1 << k) != 0 for 0 <= k <= 30 and x >= 0.                *)
Pow2(k) == 2 ^ k

TestBit(x, k) == (x \div Pow2(k)) % 2 = 1

(* Mutant: the markers at 29 and 39 are not skipped.                       *)
wwvb_pm_time_gapless(t, mins) ==
  LET k == IF t.tm_sec >= 20 THEN 44 - t.tm_sec
           ELSE IF t.tm_sec = 19 THEN 0
           ELSE 25
  IN  TestBit(mins, IF k < 0 THEN 0 ELSE k)

wwvb_pm_time(t, mins) ==
  LET i == IF t.tm_sec >= 40 THEN 46 - t.tm_sec
           ELSE IF t.tm_sec >= 30 THEN 45 - t.tm_sec
           ELSE IF t.tm_sec >= 20 THEN 44 - t.tm_sec
           ELSE IF t.tm_sec = 19 THEN 0
           ELSE 25
  IN  TestBit(mins, i)

RECURSIVE pm_ecc_loop(_, _, _, _, _)
(* The loop of wwvb_pm_ecc from index i on, b the parity so far.          *)
pm_ecc_loop(t, mins, p, i, b) ==
  IF i >= 26 THEN b
  ELSE IF ~TestBit(i, p) THEN pm_ecc_loop(t, mins, p, i + 1, b)
  ELSE LET sec == IF i <= 6 THEN 46 - i
                  ELSE IF i <= 15 THEN 45 - i
                  ELSE IF i <= 24 THEN 44 - i
                  ELSE 18
           data_bit_tm == [t EXCEPT !.tm_sec = sec]
       IN  pm_ecc_loop(t, mins, p, i + 1, (b # wwvb_pm_time(data_bit_tm, mins)))

(* Mutant: the parity starts from 0.                                       *)
wwvb_pm_ecc_even(t, mins) == pm_ecc_loop(t, mins, 17 - t.tm_sec, 1, FALSE)

wwvb_pm_ecc(t, mins) == pm_ecc_loop(t, mins, 17 - t.tm_sec, 1, TRUE)

(* C's / and % on int: the quotient is truncated towards zero and the     *)
(* remainder has the sign of the dividend.                                 *)
CDiv(a, b) == IF a >= 0 THEN a \div b ELSE -((-a) \div b)

CRem(a, b) == IF a >= 0 THEN a % b ELSE -((-a) % b)

(* Bit k (0..63) of a 64-bit word written as four 16-bit groups.          *)
WordBit(w, k) == TestBit(w[4 - (k \div 16)], k % 16)

(* What 1 << n yields as an int converted to unsigned long long, as the   *)
(* set of bit positions that are set.  It is defined for 0 <= n <= 30.    *)
(* Otherwise the behaviour is undefined and the build decides:            *)
(*   "mod32": the shift count is taken modulo 32 and the int result is    *)
(*            sign-extended (a 32-bit shift instruction);                  *)
(*   "zero":  a count outside 0..31 yields 0; 1 << 31 is sign-extended;   *)
(*   "wide":  the test is compiled as a bit test on the 64-bit word, the  *)
(*            count taken modulo 64.                                       *)
ShiftOutcomes == {"mod32", "zero", "wide"}

ShiftMask(n, sh) ==
  IF 0 <= n /\ n <= 30 THEN {n}
  ELSE CASE sh = "wide"  -> {n % 64}
         [] sh = "zero"  -> IF n = 31 THEN 31..63 ELSE {}
         [] OTHER        -> IF n % 32 = 31 THEN 31..63 ELSE {n % 32}

(* access_bit: ((1 << (index % 64)) & a[index / 64]) != 0.                *)
access_bit(a, index, sh) ==
  \E k \in ShiftMask(CRem(index, 64), sh) : WordBit(a[CDiv(index, 64) + 1], k)

half_hour_seq(t, dst_eod, dst_bod) ==
  IF ~(dst_eod \/ dst_bod)
  THEN (t.tm_hour * 4) + (t.tm_min \div 17) + 1
  ELSE IF dst_eod /\ dst_bod
  THEN (t.tm_hour * 4) + (t.tm_min \div 17) + 2
  ELSE IF dst_eod /\ ~dst_bod
  THEN IF t.tm_hour <= 3 THEN (t.tm_hour * 4) + (t.tm_min \div 17) + 1
       ELSE IF t.tm_hour <= 10 THEN (t.tm_hour * 4) + (t.tm_min \div 17) + 81
       ELSE (t.tm_hour * 4) + (t.tm_min \div 17) + 2
  ELSE IF t.tm_hour <= 3 THEN (t.tm_hour * 4) + (t.tm_min \div 17) + 2
       ELSE IF t.tm_hour <= 10 THEN (t.tm_hour * 4) + (t.tm_min \div 17) + 82
       ELSE (t.tm_hour * 4) + (t.tm_min \div 17) + 1

(* now = gmtime (t) points into the C library's static struct tm.         *)
(* wwvb_b57 and wwvb_b58 call localtime before half_hour_seq reads *now;  *)
(* whether gmtime and localtime share that object is the library's        *)
(* choice, and the order of the two calls is the compiler's:              *)
(*   "separate":   *now still holds gmtime (t);                           *)
(*   "shared_eod": *now holds localtime of 23:59:59 of the UTC day;       *)
(*   "shared_bod": *now holds localtime of 00:00:00 of the UTC day.       *)
(* Of the clobbered object only tm_hour, tm_min and tm_sec are given;     *)
(* half_hour_seq reads no other field.                                     *)
TmBufOutcomes == {"separate", "shared_eod", "shared_bod"}

now_seen(utc, tz, tmbuf) ==
  LET at(sod) == [utc EXCEPT !.tm_hour = ((sod + tz) % 86400) \div 3600,
                             !.tm_min  = (((sod + tz) % 86400) \div 60) % 60,
                             !.tm_sec  = ((sod + tz) % 86400) % 60]
  IN  CASE tmbuf = "shared_eod" -> at(86399)
        [] tmbuf = "shared_bod" -> at(0)
        [] OTHER                -> utc

(* The array and the index wwvb_pm_six_min passes to access_bit.          *)
six_min_access(utc, dst_eod, dst_bod, tz, build) ==
  LET frame_sec == ((utc.tm_min % 10) * 60) + utc.tm_sec
      seq == half_hour_seq(now_seen(utc, tz, build.tmbuf),
                           wwvb_b57(dst_eod), wwvb_b58(dst_bod))
  IN  IF frame_sec < 127
      THEN [a |-> "HALF_HOUR_SEQ_BITS",
            index |-> CRem(seq - 1 + frame_sec, 127)]
      ELSE IF frame_sec < 233
      THEN [a |-> "FIXED_TIMING_WORD", index |-> frame_sec - 127]
      ELSE [a |-> "HALF_HOUR_SEQ_BITS",
            index |-> CRem(seq + 358 - frame_sec, 127)]

packed(a) ==
  IF a = "HALF_HOUR_SEQ_BITS" THEN HALF_HOUR_SEQ_BITS ELSE FIXED_TIMING_WORD

wwvb_pm_six_min(utc, dst_eod, dst_bod, tz, build) ==
  LET c == six_min_access(utc, dst_eod, dst_bod, tz, build)
  IN  access_bit(packed(c.a), c.index, build.shift)

wwvb_pm(utc, dst_eod, dst_bod, tz, build) ==
  IF (utc.tm_min % 30 >= 10) /\ (utc.tm_min % 30 <= 16)
  THEN wwvb_pm_six_min(utc, dst_eod, dst_bod, tz, build)
  ELSE CASE utc.tm_sec \in {0, 1, 5, 8, 10, 11, 12, 29, 39, 49, 59, 60} -> FALSE
         [] utc.tm_sec \in {2, 3, 4, 6, 7, 9} -> TRUE
         [] utc.tm_sec \in 13..17
              -> \E mins \in {minute_of_century(utc)} : wwvb_pm_ecc(utc, mins)
         [] utc.tm_sec \in (18..28) \cup (30..38) \cup (40..46)
              -> \E mins \in {minute_of_century(utc)} : wwvb_pm_time(utc, mins)
         [] utc.tm_sec \in {47, 50} -> (wwvb_b57(dst_eod) # wwvb_b58(dst_bod))
         [] utc.tm_sec = 48 -> ~(wwvb_b57(dst_eod) \/ wwvb_b58(dst_bod))
         [] utc.tm_sec = 51 -> wwvb_b57(dst_eod)
         [] utc.tm_sec = 52 -> wwvb_b58(dst_bod)
         [] utc.tm_sec = 53 -> FALSE
         [] utc.tm_sec = 54 -> TRUE
         [] utc.tm_sec = 55 -> TRUE
         [] utc.tm_sec = 56 -> FALSE
         [] utc.tm_sec = 57 -> TRUE
         [] utc.tm_sec = 58 -> TRUE
         [] OTHER -> FALSE

(* The lookup table wwvb_bit_func, indexed by tm_sec (entry tm_sec + 1    *)
(* here): the number NN of the function wwvb_bNN it holds, 0 for NULL.    *)
wwvb_bit_func ==
  <<
      0,  1,  2,  3,  0,  5,  6,  7,  8,  0,
      0,  0, 12, 13,  0, 15, 16, 17, 18,  0,
      0,  0, 22, 23,  0, 25, 26, 27, 28,  0,
     30, 31, 32, 33,  0,  0, 36, 37, 38,  0,
     40, 41, 42, 43,  0, 45, 46, 47, 48,  0,
     50, 51, 52, 53,  0, 55, 56, 57, 58,  0,
      0 >>

(* The call wwvb_bit_func[n] (t) of the function numbered n.              *)
wwvb_call(n, utc, dst_eod, dst_bod) ==
  CASE n = 1 -> wwvb_b01(utc)
    [] n = 2 -> wwvb_b02(utc)
    [] n = 3 -> wwvb_b03(utc)
    [] n = 5 -> wwvb_b05(utc)
    [] n = 6 -> wwvb_b06(utc)
    [] n = 7 -> wwvb_b07(utc)
    [] n = 8 -> wwvb_b08(utc)
    [] n = 12 -> wwvb_b12(utc)
    [] n = 13 -> wwvb_b13(utc)
    [] n = 15 -> wwvb_b15(utc)
    [] n = 16 -> wwvb_b16(utc)
    [] n = 17 -> wwvb_b17(utc)
    [] n = 18 -> wwvb_b18(utc)
    [] n = 22 -> wwvb_b22(utc)
    [] n = 23 -> wwvb_b23(utc)
    [] n = 25 -> wwvb_b25(utc)
    [] n = 26 -> wwvb_b26(utc)
    [] n = 27 -> wwvb_b27(utc)
    [] n = 28 -> wwvb_b28(utc)
    [] n = 30 -> wwvb_b30(utc)
    [] n = 31 -> wwvb_b31(utc)
    [] n = 32 -> wwvb_b32(utc)
    [] n = 33 -> wwvb_b33(utc)
    [] n = 36 -> wwvb_b36(utc)
    [] n = 37 -> wwvb_b37(utc)
    [] n = 38 -> wwvb_b38(utc)
    [] n = 40 -> wwvb_b40(utc)
    [] n = 41 -> wwvb_b41(utc)
    [] n = 42 -> wwvb_b42(utc)
    [] n = 43 -> wwvb_b43(utc)
    [] n = 45 -> wwvb_b45(utc)
    [] n = 46 -> wwvb_b46(utc)
    [] n = 47 -> wwvb_b47(utc)
    [] n = 48 -> wwvb_b48(utc)
    [] n = 50 -> wwvb_b50(utc)
    [] n = 51 -> wwvb_b51(utc)
    [] n = 52 -> wwvb_b52(utc)
    [] n = 53 -> wwvb_b53(utc)
    [] n = 55 -> wwvb_b55(utc)
    [] n = 56 -> wwvb_b56(utc)
    [] n = 57 -> wwvb_b57(dst_eod)
    [] n = 58 -> wwvb_b58(dst_bod)
    [] OTHER -> FALSE

(* sec_low_samples: the switch on gmtime (t)->tm_sec.  A call through a   *)
(* NULL entry of the table returns no sample count; it is shown as -1.    *)
sec_low_samples(utc, dst_eod, dst_bod) ==
  CASE utc.tm_sec \in {0, 9, 19, 29, 39, 49, 59, 60} -> WWVB_M_LOW_SAMPLES
    [] utc.tm_sec \in {4, 10, 11, 14, 20, 21, 24, 34, 35, 44, 54}
         -> WWVB_B0_LOW_SAMPLES
    [] utc.tm_sec \in {1, 2, 3, 5, 6, 7, 8, 12, 13, 15, 16, 17, 18, 22, 23,
                       25, 26, 27, 28, 30, 31, 32, 33, 36, 37, 38, 40, 41,
                       42, 43, 45, 46, 47, 48, 50, 51, 52, 53, 55, 56, 57,
                       58}
         -> IF wwvb_bit_func[utc.tm_sec + 1] = 0 THEN -1
            ELSE IF wwvb_call(wwvb_bit_func[utc.tm_sec + 1], utc,
                              dst_eod, dst_bod)
                 THEN WWVB_B1_LOW_SAMPLES
                 ELSE WWVB_B0_LOW_SAMPLES
    [] OTHER -> WWVB_B0_LOW_SAMPLES

(* ------------------------- the stream callback ------------------------- *)
(* main's seeding of sample_index: now.tv_nsec * SAMPLE_RATE /            *)
(* MAX_NANOSEC in long arithmetic (64 bits).  The product does not fit    *)
(* the integers of the model checker, so the quotient is computed after   *)
(* cancelling the common factor 16000 and splitting tv_nsec; the value is *)
(* the same.                                                               *)
seed_sample_index(tv_nsec) ==
  LET a == SAMPLE_RATE \div 16000
      b == MAX_NANOSEC \div 16000
  IN  a * (tv_nsec \div b) + (a * (tv_nsec % b)) \div b

(* Mutant: the phase starts at 0 whatever sample_index is.                 *)
seed_wt_index_zero(p, si) == 0

(* main's seeding of wt_index.                                             *)
seed_wt_index(p, si) == si % WT_SIZE(p)

(* Mutant: the second before `secs` is classified.                         *)
classify_stale(p, secs, j, z, eod, bod) ==
  IF IsJJY(p) THEN sec_high_samples(get_tm(secs - 1, j, z))
  ELSE sec_low_samples(gmtime(secs - 1), eod, bod)

(* The second classifier of the stream p for the second `secs`.           *)
classify(p, secs, j, z, eod, bod) ==
  IF IsJJY(p) THEN sec_high_samples(get_tm(secs, j, z))
  ELSE sec_low_samples(gmtime(secs), eod, bod)

(* Mutant: the frame at the boundary still has the leading level.          *)
frame_table_late(p, si, bs) ==
  IF IsJJY(p)
  THEN IF si <= bs THEN "WT_HIGH" ELSE "WT_LOW"
  ELSE IF si <= bs THEN "WT_LOW" ELSE "WT_HIGH"

(* The wavetable the frame at sample_index si is read from.               *)
frame_table(p, si, bs) ==
  IF IsJJY(p)
  THEN IF si < bs THEN "WT_HIGH" ELSE "WT_LOW"
  ELSE IF si < bs THEN "WT_LOW" ELSE "WT_HIGH"

(* Mutant: the index wraps at the capacity of the table, not its size.     *)
next_wt_index_cap(p, wt) == (wt + 1) % WT_CAP

(* d->wt_index = (d->wt_index + 1) % WT_SIZE                               *)
next_wt_index(p, wt) == (wt + 1) % WT_SIZE(p)

(* Mutant: the second ends one frame late.                                 *)
second_over_late(si) == si > SAMPLE_RATE

(* if (d->sample_index >= SAMPLE_RATE)                                     *)
second_over(si) == si >= SAMPLE_RATE

(* Mutant: the half-cycle shift goes to the seconds whose PM bit is 0.     *)
pm_wt_index_inverted(secs, eod, bod, z, b) ==
  IF wwvb_pm(gmtime(secs), eod, bod, z, b) THEN 0 ELSE PS_INDEX

(* WWVB: the phase set at the 100 ms mark of the second.                   *)
pm_wt_index(secs, eod, bod, z, b) ==
  IF wwvb_pm(gmtime(secs), eod, bod, z, b) THEN PS_INDEX ELSE 0

NoTm ==
  [tm_sec |-> 0, tm_min |-> 0, tm_hour |-> 0, tm_yday |-> 0, tm_year |-> 0,
   tm_wday |-> 0]

Builds == [shift : ShiftOutcomes, tmbuf : TmBufOutcomes]

VARIABLES
  proto,             \* which stream this process runs
  jst,               \* args.jst / d->jst
  tz,                \* the local zone's offset from UTC in seconds
  dst_eod, dst_bod,  \* what localtime reports for the end / start of the day
  build,             \* how the build resolves the undefined behaviours
  framesPerBuffer,   \* the frame count the host passes to the callback
  seconds,           \* d->seconds
  local,             \* *d->local (JJY)
  sample_index,      \* d->sample_index
  wt_index,          \* d->wt_index
  boundary_samples,  \* d->high_samples (JJY), d->low_samples (WWVB)
  pc,                \* "idle": between callbacks; "loop": inside the for loop
  i,                 \* the loop counter of the callback
  out,               \* the sample written last: its wavetable and index
  s0, ns0,           \* the clock reading main seeded the stream with
  n,                 \* frames written since the stream started
  cur,               \* the frames of the current second so far
  prev,              \* the frames of the second finished last
  arg,               \* the input of the operation under study
  ret                \* the function applied and what it returned

vars ==
  << proto, jst, tz, dst_eod, dst_bod, build, framesPerBuffer, seconds, local,
     sample_index, wt_index, boundary_samples, pc, i, out, s0, ns0, n, cur,
     prev, arg, ret >>

env == << proto, jst, tz, dst_eod, dst_bod, build, framesPerBuffer, s0, ns0 >>

(* ------------------------------ bounds --------------------------------- *)
(* The host keeps calling the callback while fewer frames were written.   *)
MaxFrames == 96100

(* tm_year of the inputs of the codec runs from 0 (1900) up to this.      *)
MaxTmYear == 199

(* The clock readings and configurations the streams are started with.    *)
(* 1700000000 is 2023-11-14T22:13:20Z.                                     *)
B0 == [shift |-> "mod32", tmbuf |-> "separate"]

B1 == [shift |-> "wide", tmbuf |-> "shared_eod"]

B2 == [shift |-> "zero", tmbuf |-> "shared_bod"]

Seed(p, j, z, s, ns, e, b, bl, f) ==
  [proto |-> p, jst |-> j, tz |-> z, s |-> s, ns |-> ns, dst_eod |-> e,
   dst_bod |-> b, build |-> bl, fpb |-> f]

Seeds ==
  { Seed("JJY60", TRUE,  0,      1700000000, 500000000, FALSE, FALSE, B0, 64),
    Seed("JJY60", TRUE,  0,      1699999998, 999800000, FALSE, FALSE, B0, 64),
    Seed("JJY60", FALSE, 19800,  1699999986, 999999999, FALSE, FALSE, B0, 64),
    Seed("JJY60", FALSE, -18000, 1700000019, 0,         FALSE, FALSE, B0, 512),
    Seed("JJY40", TRUE,  0,      1700000000, 500000000, FALSE, FALSE, B0, 64),
    Seed("JJY40", FALSE, 19800,  1699999986, 999800000, FALSE, FALSE, B0, 64),
    Seed("JJY40", FALSE, -18000, 1700000018, 0,         FALSE, FALSE, B0, 512),
    Seed("WWVB",  FALSE, -18000, 1700000000, 500000000, FALSE, FALSE, B0, 512),
    Seed("WWVB",  FALSE, -18000, 1699999998, 999800000, TRUE,  FALSE, B1, 512),
    Seed("WWVB",  FALSE, -25200, 1700000435, 999999999, FALSE, TRUE,  B2, 512),
    Seed("WWVB",  FALSE, 3600,   1700000039, 0,         TRUE,  TRUE,  B0, 64) }

(* The record kept of one second: the sample_index its first frame had,  *)
(* the frames read from each wavetable, the changes of wavetable between  *)
(* consecutive frames, the first and the last wavetable, and the          *)
(* boundary_samples in force.                                              *)
NoSecond == [from |-> 0, high |-> 0, low |-> 0, switches |-> 0,
             first |-> "none", last |-> "none", boundary |-> 0]

(* ------------------------- the stream: Spec ---------------------------- *)
(* The state main leaves when it calls Pa_StartStream.                     *)
Init ==
  \E sd \in Seeds :
    LET si == seed_sample_index(sd.ns) IN
    /\ proto = sd.proto /\ jst = sd.jst /\ tz = sd.tz
    /\ dst_eod = sd.dst_eod /\ dst_bod = sd.dst_bod /\ build = sd.build
    /\ framesPerBuffer = sd.fpb
    /\ seconds = sd.s
    /\ sample_index = si
    /\ wt_index = seed_wt_index(sd.proto, si)
    /\ local = IF IsJJY(sd.proto) THEN get_tm(sd.s, sd.jst, sd.tz) ELSE NoTm
    /\ boundary_samples =
         classify(sd.proto, sd.s, sd.jst, sd.tz, sd.dst_eod, sd.dst_bod)
    /\ pc = "idle" /\ i = 0
    /\ out = [table |-> "none", index |-> 0]
    /\ s0 = sd.s /\ ns0 = sd.ns /\ n = 0
    /\ cur = [NoSecond EXCEPT !.from = si]
    /\ prev = NoSecond
    /\ arg = NoTm /\ ret = [fn |-> "none"]

(* The host calls the callback with framesPerBuffer frames to fill.        *)
CallbackEnter ==
  /\ pc = "idle" /\ n < MaxFrames
  /\ pc' = "loop" /\ i' = 0
  /\ UNCHANGED << env, seconds, local, sample_index, wt_index,
                  boundary_samples, out, n, cur, prev, arg, ret >>

(* One pass of the for loop of jjy_stream_callback / wwvb_stream_callback. *)
Frame ==
  /\ pc = "loop" /\ i < framesPerBuffer
  /\ LET wt1 == IF proto = "WWVB" /\ sample_index = SAMPLE_RATE \div 10
                THEN pm_wt_index(seconds, dst_eod, dst_bod, tz, build)
                ELSE wt_index
         tbl  == frame_table(proto, sample_index, boundary_samples)
         si1  == sample_index + 1
         over == second_over(si1)
         now  == [cur EXCEPT
                    !.high = IF tbl = "WT_HIGH" THEN @ + 1 ELSE @,
                    !.low = IF tbl = "WT_LOW" THEN @ + 1 ELSE @,
                    !.switches = IF cur.last \notin {"none", tbl}
                                 THEN @ + 1 ELSE @,
                    !.first = IF @ = "none" THEN tbl ELSE @,
                    !.last = tbl,
                    !.boundary = boundary_samples]
     IN  /\ out' = [table |-> tbl, index |-> wt1]
         /\ wt_index' = next_wt_index(proto, wt1)
         /\ sample_index' = IF over THEN 0 ELSE si1
         /\ seconds' = IF over THEN seconds + 1 ELSE seconds
         /\ local' = IF over /\ IsJJY(proto)
                     THEN get_tm(seconds + 1, jst, tz) ELSE local
         /\ boundary_samples' =
              IF over
              THEN classify(proto, seconds + 1, jst, tz, dst_eod, dst_bod)
              ELSE boundary_samples
         /\ cur' = IF over THEN NoSecond ELSE now
         /\ prev' = IF over THEN now ELSE prev
  /\ i' = i + 1
  /\ n' = n + 1
  /\ UNCHANGED << env, pc, arg, ret >>

(* The loop is over: the callback returns paContinue.                      *)
CallbackReturn ==
  /\ pc = "loop" /\ i >= framesPerBuffer
  /\ pc' = "idle"
  /\ UNCHANGED << env, seconds, local, sample_index, wt_index,
                  boundary_samples, i, out, n, cur, prev, arg, ret >>

Next == CallbackEnter \/ Frame \/ CallbackReturn

Spec == Init /\ [][Next]_vars

(* ------------------------ the codec: SpecCodec -------------------------- *)
(* The broken-down times the codec functions are applied to: each field   *)
(* runs over its whole range while the others keep the values of          *)
(* 2023-11-14T22:13Z, and tm_sec runs over 0..60 for each of them.        *)
BaseTm ==
  [tm_sec |-> 0, tm_min |-> 13, tm_hour |-> 22, tm_yday |-> 317,
   tm_year |-> 123, tm_wday |-> 2]

ClockSweep ==
  {[BaseTm EXCEPT !.tm_min = m] : m \in 0..59}
    \cup {[BaseTm EXCEPT !.tm_hour = h] : h \in 0..23}

DateSweep ==
  {[BaseTm EXCEPT !.tm_yday = d] : d \in 0..365}
    \cup {[BaseTm EXCEPT !.tm_year = y] : y \in 0..MaxTmYear}
    \cup {[BaseTm EXCEPT !.tm_wday = w] : w \in 0..6}

WithSec(S) == {[t EXCEPT !.tm_sec = s] : t \in S, s \in 0..60}

(* The numbers NN of the bit functions jjy_bNN and wwvb_bNN.               *)
JjyBits == {k \in 1..60 : jjy_bit_func[k + 1] # 0}

WwvbBits == {k \in 1..60 : wwvb_bit_func[k + 1] # 0}

(* The days of the year tm_year + 1900 as gmtime counts them.             *)
DaysIn(tm_year) ==
  LET year == tm_year + 1900
  IN  IF (year % 4 = 0) /\ ((year % 100 # 0) \/ (year % 400 = 0))
      THEN 366 ELSE 365

(* The minutes around the turn of an hour, of a day, of February and of   *)
(* the year, in every year from 1900 to 1900 + MaxTmYear.                 *)
MinuteSweep ==
  {[BaseTm EXCEPT !.tm_year = y, !.tm_yday = d, !.tm_hour = hm[1],
                  !.tm_min = hm[2]] :
     y \in 0..MaxTmYear,
     d \in {0, 58, 59, 364, 365},
     hm \in {<<0, 0>>, <<0, 59>>, <<12, 30>>, <<23, 59>>}}

InitCodec ==
  /\ \/ arg \in WithSec(ClockSweep) /\ dst_eod \in BOOLEAN /\ dst_bod \in BOOLEAN
     \/ arg \in WithSec(DateSweep) /\ dst_eod = FALSE /\ dst_bod = FALSE
     \/ /\ arg \in MinuteSweep /\ arg.tm_yday < DaysIn(arg.tm_year)
        /\ dst_eod = FALSE /\ dst_bod = FALSE
  /\ ret = [fn |-> "none"]
  /\ proto = "JJY60" /\ jst = FALSE /\ tz = 0 /\ build = B0
  /\ framesPerBuffer = 0 /\ seconds = 0 /\ local = NoTm
  /\ sample_index = 0 /\ wt_index = 0 /\ boundary_samples = 0
  /\ pc = "idle" /\ i = 0 /\ out = [table |-> "none", index |-> 0]
  /\ s0 = 0 /\ ns0 = 0 /\ n = 0 /\ cur = NoSecond /\ prev = NoSecond

stream == << seconds, local, sample_index, wt_index, boundary_samples, pc, i,
             out, n, cur, prev >>

Call_sec_high_samples ==
  /\ ret.fn = "none"
  /\ ret' = [fn |-> "sec_high_samples", val |-> sec_high_samples(arg)]
  /\ UNCHANGED << env, stream, arg >>

Call_sec_low_samples ==
  /\ ret.fn = "none"
  /\ ret' = [fn |-> "sec_low_samples",
             val |-> sec_low_samples(arg, dst_eod, dst_bod)]
  /\ UNCHANGED << env, stream, arg >>

(* Every jjy_bNN applied to arg.                                           *)
Call_jjy_bits ==
  /\ ret.fn = "none"
  /\ ret' = [fn |-> "jjy_bits", val |-> [k \in JjyBits |-> jjy_call(k, arg)]]
  /\ UNCHANGED << env, stream, arg >>

(* Every wwvb_bNN applied to a time whose gmtime is arg.                   *)
Call_wwvb_bits ==
  /\ ret.fn = "none"
  /\ ret' = [fn |-> "wwvb_bits",
             val |-> [k \in WwvbBits |-> wwvb_call(k, arg, dst_eod, dst_bod)]]
  /\ UNCHANGED << env, stream, arg >>

Call_minute_of_century ==
  /\ ret.fn = "none"
  /\ ret' = [fn |-> "minute_of_century", val |-> minute_of_century(arg)]
  /\ UNCHANGED << env, stream, arg >>

NextCodec ==
  \/ Call_sec_high_samples
  \/ Call_sec_low_samples
  \/ Call_jjy_bits
  \/ Call_wwvb_bits
  \/ Call_minute_of_century

SpecCodec == InitCodec /\ [][NextCodec]_vars

(* ------------------- the phase modulation: SpecPM ----------------------- *)
(* wwvb_pm applied to the times of the clock sweep and of the window      *)
(* sweep, in every zone of Zones, under every build.                      *)
Zones == {-18000, 0, 19800}

(* Minutes of the six-minute branch, in every hour of the day.            *)
WindowSweep ==
  {[BaseTm EXCEPT !.tm_hour = h, !.tm_min = m] :
     h \in 0..23, m \in {10, 12, 13, 15, 16, 46}}

InitPM ==
  /\ arg \in WithSec(ClockSweep \cup WindowSweep)
  /\ dst_eod \in BOOLEAN /\ dst_bod \in BOOLEAN
  /\ tz \in Zones
  /\ build \in Builds
  /\ ret = [fn |-> "none"]
  /\ proto = "WWVB" /\ jst = FALSE
  /\ framesPerBuffer = 0 /\ seconds = 0 /\ local = NoTm
  /\ sample_index = 0 /\ wt_index = 0 /\ boundary_samples = 0
  /\ pc = "idle" /\ i = 0 /\ out = [table |-> "none", index |-> 0]
  /\ s0 = 0 /\ ns0 = 0 /\ n = 0 /\ cur = NoSecond /\ prev = NoSecond

(* wwvb_pm, and the call of access_bit it led to, if any.                  *)
Call_wwvb_pm ==
  /\ ret.fn = "none"
  /\ ret' = [fn |-> "wwvb_pm",
             val |-> wwvb_pm(arg, dst_eod, dst_bod, tz, build),
             access |-> IF (arg.tm_min % 30 >= 10) /\ (arg.tm_min % 30 <= 16)
                        THEN six_min_access(arg, dst_eod, dst_bod, tz, build)
                        ELSE [a |-> "none", index |-> 0]]
  /\ UNCHANGED << env, stream, arg >>

NextPM == Call_wwvb_pm

SpecPM == InitPM /\ [][NextPM]_vars

(* ----------------- the PM frame of a minute: SpecFrame ----------------- *)
(* wwvb_pm applied to each second 0..59 of a minute, as the callback does *)
(* at the 100 ms marks of the minute, with the minute_of_century of the   *)
(* minute; the minutes are those of the clock, date and minute sweeps.    *)
InitFrame ==
  /\ \/ /\ arg \in ClockSweep \cup DateSweep
        /\ dst_eod \in BOOLEAN /\ dst_bod \in BOOLEAN
     \/ /\ arg \in MinuteSweep /\ arg.tm_yday < DaysIn(arg.tm_year)
        /\ dst_eod = FALSE /\ dst_bod = FALSE
  /\ tz = -18000
  /\ build = B0
  /\ ret = [fn |-> "none"]
  /\ proto = "WWVB" /\ jst = FALSE
  /\ framesPerBuffer = 0 /\ seconds = 0 /\ local = NoTm
  /\ sample_index = 0 /\ wt_index = 0 /\ boundary_samples = 0
  /\ pc = "idle" /\ i = 0 /\ out = [table |-> "none", index |-> 0]
  /\ s0 = 0 /\ ns0 = 0 /\ n = 0 /\ cur = NoSecond /\ prev = NoSecond

Call_wwvb_pm_frame ==
  /\ ret.fn = "none"
  /\ ret' = [fn |-> "wwvb_pm_frame",
             mins |-> minute_of_century(arg),
             val |-> [s \in 0..59 |->
                        wwvb_pm([arg EXCEPT !.tm_sec = s], dst_eod, dst_bod,
                                tz, build)]]
  /\ UNCHANGED << env, stream, arg >>

NextFrame == Call_wwvb_pm_frame

SpecFrame == InitFrame /\ [][NextFrame]_vars

(* ------------------- the packed bit arrays: SpecBits -------------------- *)
(* access_bit applied to every index of the two packed arrays that        *)
(* wwvb_pm_six_min can ask for, under every build.                         *)
MaxSeqIndex == 126

MaxWordIndex == 105

InitBits ==
  /\ arg \in [a : {"HALF_HOUR_SEQ_BITS"}, index : 0..MaxSeqIndex]
               \cup [a : {"FIXED_TIMING_WORD"}, index : 0..MaxWordIndex]
  /\ build \in Builds
  /\ ret = [fn |-> "none"]
  /\ proto = "WWVB" /\ jst = FALSE /\ tz = 0
  /\ dst_eod = FALSE /\ dst_bod = FALSE
  /\ framesPerBuffer = 0 /\ seconds = 0 /\ local = NoTm
  /\ sample_index = 0 /\ wt_index = 0 /\ boundary_samples = 0
  /\ pc = "idle" /\ i = 0 /\ out = [table |-> "none", index |-> 0]
  /\ s0 = 0 /\ ns0 = 0 /\ n = 0 /\ cur = NoSecond /\ prev = NoSecond

Call_access_bit ==
  /\ ret.fn = "none"
  /\ ret' = [fn |-> "access_bit",
             val |-> access_bit(packed(arg.a), arg.index, build.shift)]
  /\ UNCHANGED << env, stream, arg >>

NextBits == Call_access_bit

SpecBits == InitBits /\ [][NextBits]_vars

(* ---------------------- the command line: SpecCli ----------------------- *)
(* An argument is the sequence of its characters.  cli_flags: the short   *)
(* form, the long form and the field its setter sets, in table order.     *)
cli_flags(p) ==
  LET f == [short_form |-> "f", setter |-> "fukushima",
            long_form |-> << "f", "u", "k", "u", "s", "h", "i", "m", "a" >>]
      h == [short_form |-> "h", setter |-> "help",
            long_form |-> << "h", "e", "l", "p" >>]
      j == [short_form |-> "j", setter |-> "jst",
            long_form |-> << "j", "s", "t" >>]
      v == [short_form |-> "v", setter |-> "version",
            long_form |-> << "v", "e", "r", "s", "i", "o", "n" >>]
  IN  IF IsJJY(p) THEN << f, h, j, v >> ELSE << h, v >>

(* The body of the loop over argv in parse_jjy_args / parse_wwvb_args for *)
(* the argument w: the fields set, whether the argument was accepted and  *)
(* the lines written to stderr.                                            *)
RECURSIVE parse_short(_, _, _, _)
parse_short(p, w, j, args) ==
  IF j > Len(w) THEN [ok |-> TRUE, args |-> args, err |-> 0]
  ELSE LET hit == {k \in 1..Len(cli_flags(p)) :
                     w[j] = cli_flags(p)[k].short_form}
       IN  IF hit = {}
           THEN [ok |-> FALSE, args |-> args, err |-> 1]
           ELSE LET k == CHOOSE x \in hit : \A y \in hit : x <= y
                IN  parse_short(p, w, j + 1,
                                [args EXCEPT ![cli_flags(p)[k].setter] = TRUE])

(* Mutant: after a '-' only the first character is looked at.              *)
parse_arg_first_char(p, w, args) ==
  IF Len(w) >= 1 /\ w[1] = "-"
  THEN parse_short(p, SubSeq(w, 1, IF Len(w) > 2 THEN 2 ELSE Len(w)), 2, args)
  ELSE [ok |-> FALSE, args |-> args, err |-> 1]

parse_arg(p, w, args) ==
  IF Len(w) >= 2 /\ w[1] = "-" /\ w[2] = "-"
  THEN LET hit == {k \in 1..Len(cli_flags(p)) :
                     cli_flags(p)[k].long_form = SubSeq(w, 3, Len(w))}
       IN  IF hit = {}
           THEN [ok |-> FALSE, args |-> args, err |-> 1]
           ELSE LET k == CHOOSE x \in hit : \A y \in hit : x <= y
                IN  [ok |-> TRUE, err |-> 0,
                     args |-> [args EXCEPT ![cli_flags(p)[k].setter] = TRUE]]
  ELSE IF Len(w) >= 1 /\ w[1] = "-"
  THEN parse_short(p, w, 2, args)
  ELSE [ok |-> FALSE, args |-> args, err |-> 1]

(* parse_jjy_args / parse_wwvb_args from the argument number ai on;       *)
(* argv[0], the name of the program, is left out of argv here.            *)
RECURSIVE parse_args(_, _, _, _)
parse_args(p, argv, ai, args) ==
  IF ai > Len(argv) THEN [ok |-> TRUE, args |-> args, err |-> 0]
  ELSE LET r == parse_arg(p, argv[ai], args)
       IN  IF r.ok THEN parse_args(p, argv, ai + 1, r.args) ELSE r

NoArgs == [help |-> FALSE, fukushima |-> FALSE, jst |-> FALSE,
           version |-> FALSE]

(* main up to the call of Pa_Initialize: the exit code it returns (-1 if  *)
(* it goes on to open the stream), what it wrote, and the parsed flags.   *)
main_args(p, argv) ==
  LET r == parse_args(p, argv, 1, NoArgs)
  IN  IF ~r.ok
      THEN [fn |-> "main", exit |-> 1, stderr |-> r.err, stdout |-> "none",
            opens |-> FALSE, args |-> r.args]
      ELSE IF r.args.help
      THEN [fn |-> "main", exit |-> 0, stderr |-> 0, stdout |-> "help",
            opens |-> FALSE, args |-> r.args]
      ELSE IF r.args.version
      THEN [fn |-> "main", exit |-> 0, stderr |-> 0, stdout |-> "version",
            opens |-> FALSE, args |-> r.args]
      ELSE [fn |-> "main", exit |-> -1, stderr |-> 0, stdout |-> "banner",
            opens |-> TRUE, args |-> r.args]

(* The arguments tried: every word of at most MaxWordLen characters of    *)
(* Alphabet, the long forms with some words close to them, and words with *)
(* the other flag characters and with several flags; at most MaxArgs of   *)
(* them on a command line.                                                 *)
MaxWordLen == 2

MaxArgs == 2

Alphabet == {"-", "h", "f", "x"}

ExtraWords ==
  { << "-", "-", "h", "e", "l", "p" >>,
    << "-", "-", "v", "e", "r", "s", "i", "o", "n" >>,
    << "-", "-", "f", "u", "k", "u", "s", "h", "i", "m", "a" >>,
    << "-", "-", "j", "s", "t" >>,
    << "-", "-", "h", "e", "l", "p", "x" >>,
    << "-", "-", "h", "e", "l" >>,
    << "-", "h", "e", "l", "p" >>,
    << "h", "e", "l", "p" >>,
    << "-", "v" >>, << "-", "h", "v" >>,
    << "-", "f", "j" >>, << "-", "f", "j", "v" >>,
    << "-", "h", "f" >>, << "-", "h", "x" >>, << "-", "x", "h" >>,
    << "-", "h", "-" >>, << "-", "-", "h" >>, << "-", "-", "x" >> }

Words ==
  ExtraWords \cup UNION {[1..k -> Alphabet] : k \in 0..MaxWordLen}

InitCli ==
  /\ proto \in {"JJY60", "WWVB"}
  /\ \E argc \in 0..MaxArgs : arg \in [1..argc -> Words]
  /\ ret = [fn |-> "none"]
  /\ jst = FALSE /\ tz = 0 /\ dst_eod = FALSE /\ dst_bod = FALSE
  /\ build = B0
  /\ framesPerBuffer = 0 /\ seconds = 0 /\ local = NoTm
  /\ sample_index = 0 /\ wt_index = 0 /\ boundary_samples = 0
  /\ pc = "idle" /\ i = 0 /\ out = [table |-> "none", index |-> 0]
  /\ s0 = 0 /\ ns0 = 0 /\ n = 0 /\ cur = NoSecond /\ prev = NoSecond

(* main from its entry to the call of Pa_Initialize: data.jst and the     *)
(* wavetables follow the flags when it goes on.                            *)
Call_main ==
  /\ ret.fn = "none"
  /\ ret' = main_args(proto, arg)
  /\ jst' = (ret'.opens /\ ret'.args.jst)
  /\ proto' = IF ret'.opens /\ ret'.args.fukushima THEN "JJY40" ELSE proto
  /\ UNCHANGED << tz, dst_eod, dst_bod, build, framesPerBuffer, s0, ns0,
                  stream, arg >>

NextCli == Call_main

SpecCli == InitCli /\ [][NextCli]_vars

(* --------------- the buffers the host asks for: SpecPart ---------------- *)
(* One pass of the loop of the callback on the callback state d of the    *)
(* stream p: the state it leaves and the sample it writes.                 *)
(* Mutant: the rollover restarts the wavetable.                            *)
callback_frame_restart(d, p, j, z, eod, bod, b) ==
  LET wt1 == IF p = "WWVB" /\ d.sample_index = SAMPLE_RATE \div 10
             THEN pm_wt_index(d.seconds, eod, bod, z, b)
             ELSE d.wt_index
      over == second_over(d.sample_index + 1)
  IN  [seconds |-> IF over THEN d.seconds + 1 ELSE d.seconds,
       sample_index |-> IF over THEN 0 ELSE d.sample_index + 1,
       wt_index |-> IF over THEN 0 ELSE next_wt_index(p, wt1),
       boundary_samples |->
         IF over THEN classify(p, d.seconds + 1, j, z, eod, bod)
         ELSE d.boundary_samples,
       local |-> IF over /\ IsJJY(p) THEN get_tm(d.seconds + 1, j, z)
                 ELSE d.local,
       out |-> [table |-> frame_table(p, d.sample_index, d.boundary_samples),
                index |-> wt1],
       n |-> d.n + 1]

callback_frame(d, p, j, z, eod, bod, b) ==
  LET wt1 == IF p = "WWVB" /\ d.sample_index = SAMPLE_RATE \div 10
             THEN pm_wt_index(d.seconds, eod, bod, z, b)
             ELSE d.wt_index
      over == second_over(d.sample_index + 1)
  IN  [seconds |-> IF over THEN d.seconds + 1 ELSE d.seconds,
       sample_index |-> IF over THEN 0 ELSE d.sample_index + 1,
       wt_index |-> next_wt_index(p, wt1),
       boundary_samples |->
         IF over THEN classify(p, d.seconds + 1, j, z, eod, bod)
         ELSE d.boundary_samples,
       local |-> IF over /\ IsJJY(p) THEN get_tm(d.seconds + 1, j, z)
                 ELSE d.local,
       out |-> [table |-> frame_table(p, d.sample_index, d.boundary_samples),
                index |-> wt1],
       n |-> d.n + 1]

(* The host asks for frames while fewer than this were delivered.          *)
MaxPartFrames == 300

(* The frame counts the host passes, a new choice at every call.           *)
BufferSizes == {1, 64, 512}

(* Streams seeded just before a second ends and just before the 100 ms    *)
(* mark of a second.                                                       *)
PartSeeds ==
  { Seed("JJY60", TRUE,  0,      1699999998, 998666667, FALSE, FALSE, B0, 0),
    Seed("JJY40", FALSE, 19800,  1699999986, 999800000, FALSE, FALSE, B0, 0),
    Seed("WWVB",  FALSE, -18000, 1699999998, 999800000, TRUE,  FALSE, B1, 0),
    Seed("WWVB",  FALSE, -18000, 1700000522, 99900000,  FALSE, FALSE, B0, 0) }

(* The stream as main starts it, and in arg a second callback state       *)
(* seeded alike, to which the same frames are delivered one at a time.    *)
InitPart ==
  \E sd \in PartSeeds :
    LET si == seed_sample_index(sd.ns) IN
    /\ proto = sd.proto /\ jst = sd.jst /\ tz = sd.tz
    /\ dst_eod = sd.dst_eod /\ dst_bod = sd.dst_bod /\ build = sd.build
    /\ framesPerBuffer = sd.fpb
    /\ seconds = sd.s
    /\ sample_index = si
    /\ wt_index = seed_wt_index(sd.proto, si)
    /\ local = IF IsJJY(sd.proto) THEN get_tm(sd.s, sd.jst, sd.tz) ELSE NoTm
    /\ boundary_samples =
         classify(sd.proto, sd.s, sd.jst, sd.tz, sd.dst_eod, sd.dst_bod)
    /\ pc = "idle" /\ i = 0
    /\ out = [table |-> "none", index |-> 0]
    /\ s0 = sd.s /\ ns0 = sd.ns /\ n = 0
    /\ cur = [NoSecond EXCEPT !.from = si]
    /\ prev = NoSecond
    /\ arg = [seconds |-> seconds, sample_index |-> sample_index,
              wt_index |-> wt_index, boundary_samples |-> boundary_samples,
              local |-> local, out |-> out, n |-> 0]
    /\ ret = [fn |-> "none"]

(* The host calls the callback with a frame count of its choice.           *)
PartEnter ==
  /\ pc = "idle" /\ arg.n = n /\ n < MaxPartFrames
  /\ framesPerBuffer' \in BufferSizes
  /\ pc' = "loop" /\ i' = 0
  /\ UNCHANGED << proto, jst, tz, dst_eod, dst_bod, build, s0, ns0, seconds,
                  local, sample_index, wt_index, boundary_samples, out, n,
                  cur, prev, arg, ret >>

(* One pass of the loop, once the one-frame deliveries have caught up.    *)
PartFrame == arg.n = n /\ Frame

(* The callback returns paContinue after i frames.                         *)
PartReturn ==
  /\ pc = "loop" /\ i >= framesPerBuffer /\ arg.n = n
  /\ pc' = "idle"
  /\ ret' = [fn |-> "stream_callback", val |-> "paContinue", frames |-> i]
  /\ UNCHANGED << env, seconds, local, sample_index, wt_index,
                  boundary_samples, i, out, n, cur, prev, arg >>

(* A call of the callback with framesPerBuffer 1 on the state in arg.     *)
OneFrameCallback ==
  /\ arg.n < n
  /\ arg' = callback_frame(arg, proto, jst, tz, dst_eod, dst_bod, build)
  /\ UNCHANGED << env, stream, ret >>

NextPart == PartEnter \/ PartFrame \/ PartReturn \/ OneFrameCallback

SpecPart == InitPart /\ [][NextPart]_vars

(* ---------------- main and the interrupt handler: SpecInt -------------- *)
(* main from Pa_OpenStream on, the audio thread of the host, and the       *)
(* signals the user sends.  ret holds main's position and what the calls   *)
(* left: at, the call main is about to make; STREAM, the process-wide      *)
(* handle; pa, the state of the stream inside the host; err and the exit   *)
(* status.  arg holds the signals: the disposition of each, whether the    *)
(* implementation resets a disposition to SIG_DFL when it calls the        *)
(* handler (C11 7.14.1.1p3 leaves that to the implementation), how many    *)
(* signals were sent, and where main was when the handler ran for SIGINT. *)

(* The user sends at most this many signals.                               *)
MaxSignals == 2

(* The host calls the callback while fewer frames were written.            *)
MaxIntFrames == 100

IntSeeds ==
  { Seed("JJY60", TRUE,  0,      1700000000, 500000000, FALSE, FALSE, B0,
         JJY_FRAMES_PER_BUFFER),
    Seed("JJY40", FALSE, 19800,  1699999986, 999800000, FALSE, FALSE, B0,
         JJY_FRAMES_PER_BUFFER),
    Seed("WWVB",  FALSE, -18000, 1700000000, 500000000, FALSE, FALSE, B0,
         WWVB_FRAMES_PER_BUFFER) }

Signals == {"SIGINT", "SIGTERM"}

(* What a call into the host may return.                                   *)
PaErrors == {"paNoError", "paUnanticipatedHostError"}

Running == ret.fn = "main" /\ ret.at \notin {"exit", "killed"}

(* Pa_Terminate, then return err: Pa_Terminate closes the open streams.    *)
handle_pa_err(r, err) ==
  [r EXCEPT !.at = "exit", !.err = err, !.exit = err,
            !.pa = IF @ = "none" THEN "none" ELSE "closed"]

(* Pa_AbortStream on an active stream stops it; on a stopped stream it     *)
(* returns paStreamIsStopped and changes nothing.                          *)
Pa_AbortStream(pa) == IF pa = "active" THEN "stopped" ELSE pa

(* The outcomes of the handler when main's record is r.  Once the stream   *)
(* is closed STREAM dangles and Pa_AbortStream reads freed memory: the     *)
(* call returns an error, or the process dies.                             *)
handle_keyboard_interrupt(r) ==
  IF r.STREAM = "NULL"
  THEN { [r EXCEPT !.at = "exit", !.exit = "paNoError"] }
  ELSE IF r.pa = "closed"
       THEN { r, [r EXCEPT !.at = "killed"] }
       ELSE { [r EXCEPT !.pa = Pa_AbortStream(r.pa)] }

(* main has parsed its arguments and initialised the host.                 *)
InitInt ==
  \E sd \in IntSeeds, oneshot \in BOOLEAN :
    /\ proto = sd.proto /\ jst = sd.jst /\ tz = sd.tz
    /\ dst_eod = sd.dst_eod /\ dst_bod = sd.dst_bod /\ build = sd.build
    /\ framesPerBuffer = sd.fpb
    /\ seconds = 0 /\ sample_index = 0 /\ wt_index = 0
    /\ local = NoTm /\ boundary_samples = 0
    /\ pc = "idle" /\ i = 0
    /\ out = [table |-> "none", index |-> 0]
    /\ s0 = sd.s /\ ns0 = sd.ns /\ n = 0
    /\ cur = NoSecond /\ prev = NoSecond
    /\ arg = [disp |-> [SIGINT |-> "SIG_DFL", SIGTERM |-> "SIG_DFL"],
              oneshot |-> oneshot, sent |-> 0, caught |-> {}]
    /\ ret = [fn |-> "main", at |-> "Pa_OpenStream", STREAM |-> "NULL",
              pa |-> "none", err |-> "paNoError", exit |-> "none"]

Main_OpenStream ==
  /\ Running /\ ret.at = "Pa_OpenStream"
  /\ \E err \in PaErrors :
       ret' = IF err = "paNoError"
              THEN [ret EXCEPT !.STREAM = "stream", !.pa = "stopped",
                               !.err = err, !.at = "signal"]
              ELSE handle_pa_err(ret, err)
  /\ UNCHANGED << env, stream, arg >>

Main_signal ==
  /\ Running /\ ret.at = "signal"
  /\ arg' = [arg EXCEPT !.disp.SIGINT = "handle_keyboard_interrupt"]
  /\ ret' = [ret EXCEPT !.at = IF proto = "WWVB" THEN "signal_term"
                                ELSE "timespec_get"]
  /\ UNCHANGED << env, stream >>

(* ersatz-wwvb installs the handler for SIGTERM too.                       *)
Main_signal_term ==
  /\ Running /\ ret.at = "signal_term"
  /\ arg' = [arg EXCEPT !.disp.SIGTERM = "handle_keyboard_interrupt"]
  /\ ret' = [ret EXCEPT !.at = "timespec_get"]
  /\ UNCHANGED << env, stream >>

(* main reads the clock and seeds the state of the callback.               *)
Main_seed ==
  /\ Running /\ ret.at = "timespec_get"
  /\ LET si == seed_sample_index(ns0) IN
       /\ seconds' = s0
       /\ sample_index' = si
       /\ wt_index' = seed_wt_index(proto, si)
       /\ local' = IF IsJJY(proto) THEN get_tm(s0, jst, tz) ELSE NoTm
       /\ boundary_samples' = classify(proto, s0, jst, tz, dst_eod, dst_bod)
       /\ cur' = [NoSecond EXCEPT !.from = si]
  /\ ret' = [ret EXCEPT !.at = "Pa_StartStream"]
  /\ UNCHANGED << env, pc, i, out, n, prev, arg >>

Main_StartStream ==
  /\ Running /\ ret.at = "Pa_StartStream"
  /\ \E err \in PaErrors :
       ret' = IF err = "paNoError"
              THEN [ret EXCEPT !.pa = "active", !.err = err,
                               !.at = "Pa_IsStreamActive"]
              ELSE handle_pa_err(ret, err)
  /\ UNCHANGED << env, stream, arg >>

(* The test of the while loop.                                             *)
Main_IsStreamActive ==
  /\ Running /\ ret.at = "Pa_IsStreamActive"
  /\ ret' = [ret EXCEPT !.at = IF ret.pa = "active" THEN "Pa_Sleep"
                                ELSE "Pa_CloseStream"]
  /\ UNCHANGED << env, stream, arg >>

(* Pa_Sleep (500) returns.                                                 *)
Main_Sleep ==
  /\ Running /\ ret.at = "Pa_Sleep"
  /\ ret' = [ret EXCEPT !.at = "Pa_IsStreamActive"]
  /\ UNCHANGED << env, stream, arg >>

Main_CloseStream ==
  /\ Running /\ ret.at = "Pa_CloseStream"
  /\ \E err \in PaErrors :
       ret' = IF err = "paNoError"
              THEN [ret EXCEPT !.pa = "closed", !.err = err,
                               !.at = "Pa_Terminate"]
              ELSE handle_pa_err(ret, err)
  /\ UNCHANGED << env, stream, arg >>

(* err = Pa_Terminate (); return err;                                      *)
Main_Terminate ==
  /\ Running /\ ret.at = "Pa_Terminate"
  /\ \E err \in PaErrors :
       ret' = [ret EXCEPT !.at = "exit", !.err = err, !.exit = err]
  /\ UNCHANGED << env, stream, arg >>

MainStep ==
  \/ Main_OpenStream \/ Main_signal \/ Main_signal_term \/ Main_seed
  \/ Main_StartStream \/ Main_IsStreamActive \/ Main_Sleep
  \/ Main_CloseStream \/ Main_Terminate

(* The user sends a signal and the process takes it where main stands:     *)
(* under SIG_DFL the process is killed, otherwise the handler runs.       *)
Interrupt ==
  /\ Running /\ arg.sent < MaxSignals
  /\ \E sig \in Signals :
       IF arg.disp[sig] = "SIG_DFL"
       THEN /\ ret' = [ret EXCEPT !.at = "killed"]
            /\ arg' = [arg EXCEPT !.sent = @ + 1]
       ELSE /\ ret' \in handle_keyboard_interrupt(ret)
            /\ arg' = [arg EXCEPT
                 !.sent = @ + 1,
                 !.caught = IF sig = "SIGINT" THEN @ \cup {ret.at} ELSE @,
                 !.disp[sig] = IF arg.oneshot THEN "SIG_DFL" ELSE @]
  /\ UNCHANGED << env, stream >>

(* The audio thread: the host calls the callback while the stream is       *)
(* active, and a call in progress runs to the end of its buffer.           *)
IntCallbackEnter ==
  /\ Running /\ ret.pa = "active" /\ n < MaxIntFrames
  /\ CallbackEnter

IntFrame == Running /\ Frame

IntCallbackReturn == Running /\ CallbackReturn

NextInt ==
  \/ Main_OpenStream \/ Main_signal \/ Main_signal_term \/ Main_seed
  \/ Main_StartStream \/ Main_IsStreamActive \/ Main_Sleep
  \/ Main_CloseStream \/ Main_Terminate
  \/ Interrupt
  \/ IntCallbackEnter \/ IntFrame \/ IntCallbackReturn

SpecInt == InitInt /\ [][NextInt]_vars

(* main is scheduled, and each of its calls returns.  Nothing makes the    *)
(* user send a signal.                                                     *)
SpecIntFair == SpecInt /\ WF_vars(MainStep)

(* ============================== claims ================================= *)

(* C1: after every frame the stream callback processes, in the JJY-60,    *)
(* JJY-40 and WWVB streams alike, 0 <= sample_index < SAMPLE_RATE and     *)
(* 0 <= wt_index < WT_SIZE.                                                *)
C1_IndicesInRange ==
  /\ 0 <= sample_index /\ sample_index < 48000
  /\ 0 <= wt_index
  /\ wt_index < (CASE proto = "JJY60" -> 12 [] proto = "JJY40" -> 18
                   [] proto = "WWVB" -> 12)

C1_Witness ==
  /\ proto = "JJY40" /\ n > 48000 /\ sample_index = 47999 /\ wt_index = 17

(* C2: n frames after seeding with seconds s0 and nanoseconds ns0, with   *)
(* i0 the seeded sample_index, seconds = s0 + (i0 + n) div 48000 and      *)
(* sample_index = (i0 + n) mod 48000; seeded at 1700000000 s and          *)
(* 500000000 ns, sample_index starts at 24000 and seconds becomes         *)
(* 1700000001 with the frame number 24000 and not before.                  *)
C2_SecondsFollowFrames ==
  LET i0 == seed_sample_index(ns0) IN
  /\ seconds = s0 + ((i0 + n) \div 48000)
  /\ sample_index = (i0 + n) % 48000
  /\ (s0 = 1700000000 /\ ns0 = 500000000) =>
       /\ n = 0 => sample_index = 24000
       /\ n < 24000 => seconds = 1700000000
       /\ (n >= 24000 /\ n < 72000) => seconds = 1700000001

C2_Witness ==
  /\ s0 = 1700000000 /\ ns0 = 500000000 /\ n = 24000
  /\ seconds = 1700000001 /\ sample_index = 0

(* C3: boundary_samples is always what the second classifier returns for  *)
(* the broken-down time of the current seconds, and a frame that leaves   *)
(* seconds alone leaves boundary_samples alone.                            *)
C3_BoundaryIsClassified ==
  /\ [](boundary_samples =
          IF proto \in {"JJY60", "JJY40"}
          THEN sec_high_samples(IF jst THEN gmtime(seconds + 32400)
                                ELSE gmtime(seconds + tz))
          ELSE sec_low_samples(gmtime(seconds), dst_eod, dst_bod))
  /\ [][seconds' = seconds => boundary_samples' = boundary_samples]_vars

C3_Witness ==
  /\ proto = "WWVB" /\ seconds = s0 + 1 /\ sample_index = 0
  /\ prev.boundary = 9600 /\ boundary_samples = 38400

(* C4 as claimed: wherever sample_index = 0, wt_index is 0 or WT_SIZE/2,  *)
(* in the JJY-60, JJY-40 and WWVB streams.                                 *)
C4_PhaseAtSecondStart_Claimed ==
  sample_index = 0 =>
    wt_index \in {0, (CASE proto = "JJY40" -> 18 [] OTHER -> 12) \div 2}

(* C4 amended: wherever sample_index = 0, wt_index is 0 in JJY-60, 0 or 6 *)
(* in WWVB, and 0, 6 or 12 in JJY-40.                                      *)
C4_PhaseAtSecondStart ==
  sample_index = 0 =>
    wt_index \in (CASE proto = "JJY60" -> {0}
                    [] proto = "WWVB"  -> {0, 6}
                    [] proto = "JJY40" -> {0, 6, 12})

C4_Witness ==
  /\ proto = "JJY40" /\ sample_index = 0 /\ wt_index = 6 /\ seconds = s0 + 2

C5_MarkerExactlyAtMarkerSeconds ==
  /\ ret.fn = "sec_high_samples" =>
       (ret.val = 9600 <=> arg.tm_sec \in {0, 9, 19, 29, 39, 49, 59, 60})
  /\ ret.fn = "sec_low_samples" =>
       (ret.val = 38400 <=> arg.tm_sec \in {0, 9, 19, 29, 39, 49, 59, 60})

C5_Witness ==
  /\ ret.fn = "sec_low_samples" /\ arg.tm_sec = 60 /\ ret.val = 38400
  /\ dst_eod /\ ~dst_bod

(* C6: for a second s of 1..58 that is no marker, the classifier returns  *)
(* the binary-0 length (JJY 38400, WWVB 9600) when s is in the protocol's *)
(* constant-zero set; otherwise the table entry for s is the bit function *)
(* numbered s, not NULL, and the classifier returns 24000 when that       *)
(* function yields 1 and the binary-0 length when it yields 0.            *)
C6_ClassifierFollowsBitFunction ==
  LET s == arg.tm_sec
      data == (1..58) \ {9, 19, 29, 39, 49}
      jjyZero == {4, 10, 11, 14, 20, 21, 24, 34, 35, 38, 40, 55, 56, 57, 58}
      wwvbZero == {4, 10, 11, 14, 20, 21, 24, 34, 35, 44, 54}
  IN  /\ (ret.fn = "sec_high_samples" /\ s \in data) =>
           IF s \in jjyZero THEN ret.val = 38400
           ELSE /\ jjy_bit_func[s + 1] = s
                /\ ret.val = IF jjy_call(s, arg) THEN 24000 ELSE 38400
      /\ (ret.fn = "sec_low_samples" /\ s \in data) =>
           IF s \in wwvbZero THEN ret.val = 9600
           ELSE /\ wwvb_bit_func[s + 1] = s
                /\ ret.val = IF wwvb_call(s, arg, dst_eod, dst_bod)
                             THEN 24000 ELSE 9600

C6_Witness ==
  /\ ret.fn = "sec_low_samples" /\ arg.tm_sec = 5 /\ arg.tm_min = 38
  /\ ret.val = 24000

(* The sum of the weights of the bits of `bits` that are set; `field` is  *)
(* a sequence of pairs << bit number, weight >>.                           *)
RECURSIVE Decode(_, _)
Decode(bits, field) ==
  IF field = << >> THEN 0
  ELSE (IF bits[Head(field)[1]] THEN Head(field)[2] ELSE 0)
         + Decode(bits, Tail(field))

(* C8: the weights of the set code bits add up to the field: minute,      *)
(* hour, day of the year tm_yday + 1 and year of the century in the JJY   *)
(* and in the WWVB code, and the weekday in the JJY code.                  *)
C8_BcdRoundTrip ==
  LET minute == << <<1, 40>>, <<2, 20>>, <<3, 10>>, <<5, 8>>, <<6, 4>>,
                   <<7, 2>>, <<8, 1>> >>
      hour   == << <<12, 20>>, <<13, 10>>, <<15, 8>>, <<16, 4>>, <<17, 2>>,
                   <<18, 1>> >>
      day    == << <<22, 200>>, <<23, 100>>, <<25, 80>>, <<26, 40>>,
                   <<27, 20>>, <<28, 10>>, <<30, 8>>, <<31, 4>>, <<32, 2>>,
                   <<33, 1>> >>
      jyear  == << <<41, 80>>, <<42, 40>>, <<43, 20>>, <<44, 10>>, <<45, 8>>,
                   <<46, 4>>, <<47, 2>>, <<48, 1>> >>
      wyear  == << <<45, 80>>, <<46, 40>>, <<47, 20>>, <<48, 10>>, <<50, 8>>,
                   <<51, 4>>, <<52, 2>>, <<53, 1>> >>
      wday   == << <<50, 4>>, <<51, 2>>, <<52, 1>> >>
  IN  /\ ret.fn = "jjy_bits" =>
           /\ Decode(ret.val, minute) = arg.tm_min
           /\ Decode(ret.val, hour) = arg.tm_hour
           /\ Decode(ret.val, day) = arg.tm_yday + 1
           /\ Decode(ret.val, jyear) = arg.tm_year % 100
           /\ Decode(ret.val, wday) = arg.tm_wday
      /\ ret.fn = "wwvb_bits" =>
           /\ Decode(ret.val, minute) = arg.tm_min
           /\ Decode(ret.val, hour) = arg.tm_hour
           /\ Decode(ret.val, day) = arg.tm_yday + 1
           /\ Decode(ret.val, wyear) = arg.tm_year % 100

C8_Witness ==
  /\ ret.fn = "wwvb_bits" /\ arg.tm_yday = 365
  /\ ret.val[22] /\ ret.val[23] /\ ret.val[26] /\ ret.val[27]
  /\ ret.val[31] /\ ret.val[32] /\ ~ret.val[33]

(* C9: JJY bit 37 makes the number of ones among bits 01, 02, 03, 05, 06, *)
(* 07, 08 and 37 even, JJY bit 36 does so for bits 12, 13, 15, 16, 17, 18 *)
(* and 36, and minute 42 gives bit 37 = 0.                                 *)
C9_ParityBits ==
  LET ones(S) == Cardinality({k \in S : ret.val[k]}) IN
  ret.fn = "jjy_bits" =>
    /\ ones({1, 2, 3, 5, 6, 7, 8, 37}) % 2 = 0
    /\ ones({12, 13, 15, 16, 17, 18, 36}) % 2 = 0
    /\ ret.val[37] = (ones({1, 2, 3, 5, 6, 7, 8}) % 2 = 1)
    /\ ret.val[36] = (ones({12, 13, 15, 16, 17, 18}) % 2 = 1)
    /\ arg.tm_min = 42 => ~ret.val[37]

C9_Witness ==
  /\ ret.fn = "jjy_bits" /\ arg.tm_min = 42 /\ ~ret.val[37]
  /\ ret.val[1] /\ ret.val[7] /\ ret.val[12] /\ ret.val[17] /\ ~ret.val[36]

(* C10: at minute mod 30 = 13 and second 0, wwvb_pm returns bit 53 of     *)
(* FIXED_TIMING_WORD, and that value is 0.                                 *)
C10_FixedTimingWordBit53_Claimed ==
  (ret.fn = "wwvb_pm" /\ arg.tm_min % 30 = 13 /\ arg.tm_sec = 0) =>
    /\ ret.val = WordBit(FIXED_TIMING_WORD[1], 53)
    /\ ret.val = FALSE

(* C11: wwvb_b55 is true exactly for the Gregorian leap years (divisible  *)
(* by 4, and by 100 only if by 400) among 1900..2099, and the year the    *)
(* loop of minute_of_century counts as 366 days is a leap year by the     *)
(* same rule: moving a time to the next year of the same century adds     *)
(* 366 days of minutes after a leap year and 365 days otherwise.          *)
C11_LeapYearBit ==
  LET year == arg.tm_year + 1900
      leap == (year % 4 = 0) /\ ((year % 100 = 0) => (year % 400 = 0))
  IN  /\ ret.fn = "wwvb_bits" => (ret.val[55] <=> leap)
      /\ (ret.fn = "minute_of_century" /\ (year + 1) % 100 # 0) =>
           minute_of_century([arg EXCEPT !.tm_year = @ + 1]) - ret.val
             = (IF leap THEN 366 ELSE 365) * 1440

C11_Witness ==
  /\ ret.fn = "wwvb_bits" /\ arg.tm_year = 100 /\ ret.val[55]

(* C12: whatever the time, the WWVB bits 36 and 38 are 1 and the bits 37, *)
(* 40, 41, 42, 43 and 56 are 0, and sec_low_samples returns 24000 for     *)
(* the seconds 36 and 38 and 9600 for the seconds 37, 40..43 and 56.      *)
C12_Dut1BitsConstant ==
  /\ ret.fn = "wwvb_bits" =>
       /\ ret.val[36] /\ ret.val[38]
       /\ \A k \in {37, 40, 41, 42, 43, 56} : ~ret.val[k]
  /\ ret.fn = "sec_low_samples" =>
       /\ arg.tm_sec \in {36, 38} => ret.val = 24000
       /\ arg.tm_sec \in {37, 40, 41, 42, 43, 56} => ret.val = 9600

C12_Witness ==
  /\ ret.fn = "sec_low_samples" /\ arg.tm_sec = 38 /\ arg.tm_yday = 365
  /\ ret.val = 24000

(* C13: in both programs, when some argument has a short flag character   *)
(* the program does not know, is a --long flag it does not know, or does  *)
(* not start with '-', main writes one error line to stderr and returns 1 *)
(* without opening the stream; otherwise, when help or version was asked  *)
(* for (--help, --version, or h or v among the characters after one '-'), *)
(* it returns 0 without opening the stream; and every known character     *)
(* after one '-' sets its flag.                                            *)
C13_ArgumentParsing ==
  LET jjy == proto \in {"JJY60", "JJY40"}
      shorts == IF jjy THEN {"f", "h", "j", "v"} ELSE {"h", "v"}
      longs == IF jjy
               THEN { << "f", "u", "k", "u", "s", "h", "i", "m", "a" >>,
                      << "h", "e", "l", "p" >>, << "j", "s", "t" >>,
                      << "v", "e", "r", "s", "i", "o", "n" >> }
               ELSE { << "h", "e", "l", "p" >>,
                      << "v", "e", "r", "s", "i", "o", "n" >> }
      isLong(w) == Len(w) >= 2 /\ w[1] = "-" /\ w[2] = "-"
      isShort(w) == Len(w) >= 1 /\ w[1] = "-" /\ ~isLong(w)
      bad(w) == IF isLong(w) THEN SubSeq(w, 3, Len(w)) \notin longs
                ELSE IF isShort(w) THEN \E k \in 2..Len(w) : w[k] \notin shorts
                ELSE TRUE
      given(c) == \E k \in 1..Len(arg) :
                    LET w == arg[k]
                    IN  \/ isLong(w) /\ Len(w) > 2 /\ w[3] = c
                        \/ isShort(w) /\ \E m \in 2..Len(w) : w[m] = c
      anyBad == \E k \in 1..Len(arg) : bad(arg[k])
  IN  ret.fn = "main" =>
        /\ anyBad => (ret.exit = 1 /\ ret.stderr = 1 /\ ~ret.opens)
        /\ (~anyBad /\ (given("h") \/ given("v"))) =>
             (ret.exit = 0 /\ ret.stderr = 0 /\ ~ret.opens)
        /\ ~anyBad =>
             /\ ret.args.help = given("h")
             /\ ret.args.version = given("v")
             /\ ret.args.fukushima = (jjy /\ given("f"))
             /\ ret.args.jst = (jjy /\ given("j"))

C13_Witness ==
  /\ ret.fn = "main" /\ arg = << << "-", "f", "j" >>, << "-", "v" >> >>
  /\ ret.args.fukushima /\ ret.args.jst /\ ret.args.version
  /\ ret.exit = 0 /\ ~ret.opens

(* C14: access_bit(a, i) is bit i mod 64 of the word a[i / 64], bit 0     *)
(* being the least significant, for every i of 0..126 in                  *)
(* HALF_HOUR_SEQ_BITS and every i of 0..105 in FIXED_TIMING_WORD, also    *)
(* where i mod 64 >= 31.  The code builds the mask by shifting an int,    *)
(* and the statement fails in the builds where that shift is 32 bits wide. *)
C14_AccessBit_Claimed ==
  ret.fn = "access_bit" =>
    ret.val = WordBit(packed(arg.a)[(arg.index \div 64) + 1], arg.index % 64)

(* C15: whenever wwvb_pm takes the six-minute branch (minute mod 30 in    *)
(* 10..16, tm_sec in 0..59, any hour, any DST edge flags) the index it    *)
(* passes to access_bit is inside the packed array: 0..126 for            *)
(* HALF_HOUR_SEQ_BITS, 0..105 for FIXED_TIMING_WORD, never negative.  The *)
(* statement fails in minute 16 (and 46), where frame_sec exceeds 358.    *)
C15_IndexInsideArray_Claimed ==
  (/\ ret.fn = "wwvb_pm"
   /\ arg.tm_min % 30 \in 10..16
   /\ arg.tm_sec \in 0..59) =>
     /\ ret.access.a \in {"HALF_HOUR_SEQ_BITS", "FIXED_TIMING_WORD"}
     /\ ret.access.a = "HALF_HOUR_SEQ_BITS" => ret.access.index \in 0..126
     /\ ret.access.a = "FIXED_TIMING_WORD" => ret.access.index \in 0..105

(* C16: inside the six-minute window, with frame_sec = (minute mod 10) *  *)
(* 60 + sec and seq = half_hour_seq of the UTC time and the DST flags,    *)
(* the PM bit is bit (seq - 1 + frame_sec) mod 127 of the sequence when   *)
(* frame_sec < 127, bit frame_sec - 127 of the fixed timing word when     *)
(* 127 <= frame_sec < 233, and bit (seq + 358 - frame_sec) mod 127 of the *)
(* sequence when frame_sec >= 233, mod being never negative; outside the  *)
(* window (minute mod 30 not in 10..16) the sequence is not used.  The    *)
(* statement fails: the bit read is not the bit numbered so.              *)
C16_SixMinuteBit_Claimed ==
  LET frame_sec == ((arg.tm_min % 10) * 60) + arg.tm_sec
      seq == half_hour_seq(arg, dst_eod, dst_bod)
      bit(a, k) == WordBit(a[(k \div 64) + 1], k % 64)
  IN  (ret.fn = "wwvb_pm" /\ arg.tm_sec \in 0..59) =>
        IF arg.tm_min % 30 \in 10..16
        THEN ret.val =
               IF frame_sec < 127
               THEN bit(HALF_HOUR_SEQ_BITS, (seq - 1 + frame_sec) % 127)
               ELSE IF frame_sec < 233
               THEN bit(FIXED_TIMING_WORD, frame_sec - 127)
               ELSE bit(HALF_HOUR_SEQ_BITS, (seq + 358 - frame_sec) % 127)
        ELSE ret.access.a = "none"

(* C17: in the WWVB stream the frame with sample_index = SAMPLE_RATE / 10 *)
(* is written with wt_index 6 when the PM bit of its second is 1 and 0    *)
(* when it is 0, and the phase runs on over the second rollover: every    *)
(* sample from the 100 ms mark of a second s up to the 100 ms mark of     *)
(* s + 1 is read from index (sample_index + 6 * pm(s)) mod 12, and        *)
(* between frames (wt_index - sample_index) mod 12 is 0 or 6.  The sample *)
(* written last had the sample_index before the current one.               *)
C17_CarrierPhase ==
  proto = "WWVB" =>
    LET pi == (sample_index + 47999) % 48000
        ps == IF sample_index = 0 THEN seconds - 1 ELSE seconds
        s  == IF pi >= 4800 THEN ps ELSE ps - 1
        marked == s > s0 \/ (s = s0 /\ seed_sample_index(ns0) <= 4800)
        pm == wwvb_pm(gmtime(s), dst_eod, dst_bod, tz, build)
    IN  /\ (wt_index - sample_index) % 12 \in {0, 6}
        /\ (out.table # "none" /\ marked) =>
             out.index = (pi + (IF pm THEN 6 ELSE 0)) % 12

C17_Witness ==
  /\ proto = "WWVB" /\ seconds = s0 + 2 /\ sample_index = 4800
  /\ wwvb_pm(gmtime(s0 + 1), dst_eod, dst_bod, tz, build)
  /\ out.index = 5 /\ wt_index = 6

(* C18: outside the six-minute window the PM bits of the seconds 18,      *)
(* 20..28, 30..38 and 40..46 of a minute, weighted 2^i with i = 25 for    *)
(* second 18, 44 - sec for 20..28, 45 - sec for 30..38 and 46 - sec for   *)
(* 40..46, add up to minute_of_century of that minute, which is below     *)
(* 2^26; second 19 repeats bit 0; and the second the ECC rule gives for a *)
(* position i of 1..25 (46 - i up to 6, 45 - i up to 15, 44 - i up to 24, *)
(* 18 for 25) is the second wwvb_pm_time reads bit i at.                   *)
C18_TimeBitsRebuildMinute ==
  LET idx(sec) == IF sec = 18 THEN 25
                  ELSE IF sec <= 28 THEN 44 - sec
                  ELSE IF sec <= 38 THEN 45 - sec
                  ELSE 46 - sec
      sec_of(k) == IF k <= 6 THEN 46 - k
                   ELSE IF k <= 15 THEN 45 - k
                   ELSE IF k <= 24 THEN 44 - k
                   ELSE 18
      data == << 18, 20, 21, 22, 23, 24, 25, 26, 27, 28, 30, 31, 32, 33, 34,
                 35, 36, 37, 38, 40, 41, 42, 43, 44, 45, 46 >>
      field == [k \in 1..Len(data) |-> << data[k], Pow2(idx(data[k])) >>]
  IN  (ret.fn = "wwvb_pm_frame" /\ arg.tm_min % 30 \notin 10..16) =>
        /\ Decode(ret.val, field) = ret.mins
        /\ ret.mins < Pow2(26)
        /\ ret.val[19] = ret.val[46]
        /\ \A k \in 1..25 :
             /\ idx(sec_of(k)) = k
             /\ wwvb_pm_time([arg EXCEPT !.tm_sec = sec_of(k)], Pow2(k))
             /\ ~wwvb_pm_time([arg EXCEPT !.tm_sec = sec_of(k)],
                              Pow2(26) - 1 - Pow2(k))

C18_Witness ==
  /\ ret.fn = "wwvb_pm_frame" /\ arg.tm_year = 199 /\ arg.tm_yday = 364
  /\ arg.tm_hour = 23 /\ arg.tm_min = 59
  /\ ret.val[18] /\ ret.val[46]

(* C19: outside the six-minute window the PM bit of a second sec of       *)
(* 13..17 is 1 XOR the parity of the bits i of minute_of_century over the *)
(* positions i of 1..25 that have bit 17 - sec set; bit 0 and the other   *)
(* positions do not change it.                                             *)
C19_HammingParity ==
  (ret.fn = "wwvb_pm_frame" /\ arg.tm_min % 30 \notin 10..16) =>
    \A sec \in 13..17 :
      LET p == 17 - sec
          mins == ret.mins
          covered == {k \in 1..25 : (k \div Pow2(p)) % 2 = 1}
          ones == {k \in covered : (mins \div Pow2(k)) % 2 = 1}
          flip(k) == IF (mins \div Pow2(k)) % 2 = 1 THEN mins - Pow2(k)
                     ELSE mins + Pow2(k)
      IN  /\ ret.val[sec] = (Cardinality(ones) % 2 = 0)
          /\ \A k \in (0..25) \ covered :
               wwvb_pm_ecc([arg EXCEPT !.tm_sec = sec], flip(k)) = ret.val[sec]

C19_Witness ==
  /\ ret.fn = "wwvb_pm_frame" /\ arg.tm_min = 20 /\ arg.tm_year = 123
  /\ arg.tm_hour = 22 /\ ret.val[14] /\ ~ret.val[17]

(* C20: minute_of_century is 0 at 00:00 on 1 January of a year divisible  *)
(* by 100 and grows by exactly 1 when the UTC time moves on by one minute *)
(* within the century, over the turn of an hour, of a day and of a year   *)
(* of 365 or of 366 days (Gregorian rule), for the years 1900..2099.      *)
C20_MinuteOfCentury ==
  ret.fn = "minute_of_century" =>
    LET year == arg.tm_year + 1900
        days == IF (year % 4 = 0) /\ ((year % 100 # 0) \/ (year % 400 = 0))
                THEN 366 ELSE 365
        next == IF arg.tm_min < 59 THEN [arg EXCEPT !.tm_min = @ + 1]
                ELSE IF arg.tm_hour < 23
                THEN [arg EXCEPT !.tm_min = 0, !.tm_hour = @ + 1]
                ELSE IF arg.tm_yday < days - 1
                THEN [arg EXCEPT !.tm_min = 0, !.tm_hour = 0,
                                 !.tm_yday = @ + 1]
                ELSE [arg EXCEPT !.tm_min = 0, !.tm_hour = 0, !.tm_yday = 0,
                                 !.tm_year = @ + 1]
    IN  /\ (year % 100 = 0 /\ arg.tm_yday = 0 /\ arg.tm_hour = 0
              /\ arg.tm_min = 0) => ret.val = 0
        /\ ((next.tm_year + 1900) % 100 # 0 \/ next.tm_year = arg.tm_year) =>
             minute_of_century(next) = ret.val + 1

C20_Witness ==
  /\ ret.fn = "minute_of_century" /\ arg.tm_year = 104 /\ arg.tm_yday = 365
  /\ arg.tm_hour = 23 /\ arg.tm_min = 59 /\ ret.val = 2630879

SigintWindow ==
  {"signal_term", "timespec_get", "Pa_StartStream", "Pa_IsStreamActive",
   "Pa_Sleep"}

InterruptEndsProcess ==
  (arg.caught \cap SigintWindow # {})
     ~> (ret.at \in {"exit", "killed"} /\ ret.pa # "active")

(* A SIGINT taken in the polling loop: the stream is aborted, the loop     *)
(* ends, and main closes the stream and returns.                           *)
InterruptWhilePolling ==
  (arg.caught \cap {"Pa_IsStreamActive", "Pa_Sleep"} # {})
     ~> (ret.at \in {"exit", "killed"} /\ ret.pa # "active")

(* The handler never assigns STREAM: only Pa_OpenStream does.              *)
HandlerOnlyReadsSTREAM ==
  [][ret.fn = "main" /\ ret.at # "Pa_OpenStream"
       => ret'.STREAM = ret.STREAM]_vars

(* C22: once the handler is installed, a SIGINT that main takes between    *)
(* installing the handler and starting the stream, or in its polling       *)
(* loop, leads to the process terminating with the stream no longer        *)
(* active; and the handler leaves STREAM as it found it.                   *)
C22_UserInterruption ==
  /\ InterruptEndsProcess
  /\ HandlerOnlyReadsSTREAM

====
